---- MODULE Spec2Model ----
(***************************************************************************)
(* Model of good-apps-psi-monitor: scripts/cwv_report.py (Core Web Vitals  *)
(* report: histogram aggregation, page status classification, 28 day CSV   *)
(* history, sitemap collection, Slack posting) and scripts/monitor.py      *)
(* (per page PSI check in a worker pool and webhook notification).         *)
(*                                                                         *)
(* The scripts are batch programs made of independent parts, so the module *)
(* holds one state machine per part.  Every machine owns its variables and *)
(* leaves the others at their idle value.                                  *)
(***************************************************************************)
EXTENDS Integers, Sequences, FiniteSets, TLC

VARIABLES
    \* ---- history machine (cwv_report.update_history, data/cwv_history.csv)
    exists,     \* DATA_CSV.exists()
    history,    \* rows of the CSV file, in file order
    today,      \* the calendar day datetime.date.today() returns (day ordinal)
    free,       \* number of update_history calls made with a freely chosen date
    prev,       \* the CSV rows before the latest update_history call
    arg         \* the row passed to the latest update_history call (<<>> if none)

VARIABLES
    \* ---- page status machine (psi_field_status, crux_page_status)
    cIn,        \* the p75 values of one field-data response (None: absent)
    cPsi,       \* what psi_field_status returned for it ("unset" before)
    cCrux       \* what crux_page_status returned for it ("unset" before)

VARIABLES
    \* ---- histogram machine (parse_histogram)
    hKey,       \* the metric the histogram belongs to
    hIn,        \* metric["histogram"]: a sequence of bins
    hOut        \* what parse_histogram returned (<<>> before)

VARIABLES
    \* ---- aggregate machine (aggregate, aggregate_probabilistic)
    aIn,        \* the metrics dict: metric key -> histogram (<<>>: no data)
    aOut,       \* what aggregate returned (<<>> before)
    aProb       \* what aggregate_probabilistic returned (<<>> before)

VARIABLES
    \* ---- sitemap machine (collect_all_sitemaps)
    sDocs,      \* what each sitemap URL serves during this run
    sPc,        \* "probe", "walk" or "done" ("idle" in the other machines)
    sStack,     \* per active get_urls_from_sitemap frame, the child <loc>s left
    sSeen,      \* the seen set of the running expansion
    sProbe,     \* requests.get calls made by the probe of sitemap_index.xml
    sFetches,   \* requests.get calls made by get_urls_from_sitemap, per URL
    sUrls       \* xml_urls: the urlsets whose <loc>s were collected, in order

VARIABLES
    \* ---- monitor machine (monitor.py: check_url pool, message, webhook)
    mPc,        \* "pool", "unwinding", "message", "send", "done", "crashed"
    mResp,      \* per URL, the PSI response each strategy's request got
    mFuture,    \* per URL, its future: "queued", "running", "done", "raised"
    mResult,    \* per URL, the result dict check_url returned
    mNext,      \* position of "for future in futures"
    mIssues,    \* issues
    mMessage,   \* the assembled message
    mWebhook,   \* whether SLACK_WEBHOOK_URL is set
    mSlack,     \* outcome of the webhook request ("none" before)
    mExit       \* exit status of the script (-1 while it runs)

VARIABLES
    \* ---- report machine (cwv_report.main: status loop, counts, post_slack)
    rPc,        \* "loop", "count", "post", "done", "raised"
    rMob,       \* mob_statuses
    rDesk,      \* pc_statuses
    rData,      \* per URL, whether a complete field record was served (mobile, desktop)
    rVals,      \* <<mob_vals, pc_vals>> once counted
    rCred,      \* the Slack credentials set: "token", "webhook" or "none"
    rSlack,     \* outcome of the Slack delivery ("none" before)
    rExit       \* exit status of the script (-1 while it runs)

VARIABLES
    \* ---- poor list machine (cwv_report.main: poor_urls and the message)
    pStatuses,  \* mob_statuses, one entry per URL of urls
    pSection    \* the poor URL part of msg (<<>> before it is built)

VARIABLES
    \* ---- normalize machine (monitor.normalize_url)
    nA,         \* a URL, as urlparse splits it
    nB,         \* another URL with the same netloc
    nDone,      \* whether normalize_url has been applied to both
    nOutA,      \* normalize_url(nA) (<<>>: None)
    nOutB       \* normalize_url(nB) (<<>>: None)

histVars == <<exists, history, today, free, prev, arg>>
clsVars == <<cIn, cPsi, cCrux>>
hgVars == <<hKey, hIn, hOut>>
aggVars == <<aIn, aOut, aProb>>
smVars == <<sDocs, sPc, sStack, sSeen, sProbe, sFetches, sUrls>>
monVars ==
    <<mPc, mResp, mFuture, mResult, mNext, mIssues, mMessage, mWebhook, mSlack, mExit>>
repVars == <<rPc, rMob, rDesk, rData, rVals, rCred, rSlack, rExit>>
poorVars == <<pStatuses, pSection>>
normVars == <<nA, nB, nDone, nOutA, nOutB>>
vars ==
    <<histVars, clsVars, hgVars, aggVars, smVars, monVars, repVars, poorVars, normVars>>

\* Python's None, among non-negative numbers.
None == -1

\* The value every machine but the running one keeps.
IdleHistory ==
    /\ exists = FALSE /\ history = <<>> /\ today = 0
    /\ free = 0 /\ prev = <<>> /\ arg = <<>>
IdleClassify == cIn = <<>> /\ cPsi = "unset" /\ cCrux = "unset"
IdleHistogram == hKey = "" /\ hIn = <<>> /\ hOut = <<>>
IdleAggregate == aIn = <<>> /\ aOut = <<>> /\ aProb = <<>>
IdleSitemap ==
    /\ sDocs = <<>> /\ sPc = "idle" /\ sStack = <<>> /\ sSeen = {}
    /\ sProbe = 0 /\ sFetches = <<>> /\ sUrls = <<>>

IdleMonitor ==
    /\ mPc = "idle" /\ mResp = <<>> /\ mFuture = <<>> /\ mResult = <<>>
    /\ mNext = 0 /\ mIssues = <<>> /\ mMessage = <<>> /\ mWebhook = FALSE
    /\ mSlack = "none" /\ mExit = -1

IdleReport ==
    /\ rPc = "idle" /\ rMob = <<>> /\ rDesk = <<>> /\ rData = <<>>
    /\ rVals = <<>> /\ rCred = "none" /\ rSlack = "none" /\ rExit = -1

IdlePoorList == pStatuses = <<>> /\ pSection = <<>>

IdleNormalize ==
    nA = <<>> /\ nB = <<>> /\ nDone = FALSE /\ nOutA = <<>> /\ nOutB = <<>>

\* Every machine but m is idle.
IdleBut(m) ==
    /\ IF m = "history" THEN TRUE ELSE IdleHistory
    /\ IF m = "classify" THEN TRUE ELSE IdleClassify
    /\ IF m = "histogram" THEN TRUE ELSE IdleHistogram
    /\ IF m = "aggregate" THEN TRUE ELSE IdleAggregate
    /\ IF m = "sitemap" THEN TRUE ELSE IdleSitemap
    /\ IF m = "monitor" THEN TRUE ELSE IdleMonitor
    /\ IF m = "report" THEN TRUE ELSE IdleReport
    /\ IF m = "poorlist" THEN TRUE ELSE IdlePoorList
    /\ IF m = "normalize" THEN TRUE ELSE IdleNormalize

\* A step of machine m leaves the other machines' variables alone.
Frame(m) ==
    /\ IF m = "history" THEN TRUE ELSE UNCHANGED histVars
    /\ IF m = "classify" THEN TRUE ELSE UNCHANGED clsVars
    /\ IF m = "histogram" THEN TRUE ELSE UNCHANGED hgVars
    /\ IF m = "aggregate" THEN TRUE ELSE UNCHANGED aggVars
    /\ IF m = "sitemap" THEN TRUE ELSE UNCHANGED smVars
    /\ IF m = "monitor" THEN TRUE ELSE UNCHANGED monVars
    /\ IF m = "report" THEN TRUE ELSE UNCHANGED repVars
    /\ IF m = "poorlist" THEN TRUE ELSE UNCHANGED poorVars
    /\ IF m = "normalize" THEN TRUE ELSE UNCHANGED normVars

(***************************************************************************)
(*                       update_history  (CSV history)                     *)
(***************************************************************************)

\* df.tail(28): the number of rows kept.
KEEP == 28

\* Day ordinals stand for ISO date strings: their string order is their
\* chronological order.
MaxDate == 30
Dates == 1..MaxDate

\* Number of calls whose date is chosen freely (any date, any order).
MaxFree == 2

\* mob_vals / pc_vals of a scheduled run, and of the k-th freely dated call.
\* update_history never looks inside them; every freely dated call supplies
\* values no earlier call supplied, so a replacement is observable.
DailyVals == <<0, 1, 0>>
FreeVals(k) == <<k, 0, 0>>

\* new_row = [date_str, *mob_vals, *pc_vals]
NewRow(date_str, mob_vals, pc_vals) ==
    [date |-> date_str, mobile |-> mob_vals, desktop |-> pc_vals]

\* pd.read_csv / pd.DataFrame(columns=cols): a frame is a sequence of
\* (index label, row); read_csv labels the rows 0..n-1.
ReadFrame(ex, rows) ==
    IF ex THEN [i \in 1..Len(rows) |-> [idx |-> i - 1, row |-> rows[i]]]
          ELSE <<>>

\* Mutant: the same-date filter is left out.
DropDate_NoFilter(df, date_str) == df

\* df[df["date"] != date_str]: keeps the index labels of the kept rows.
DropDate(df, date_str) ==
    LET keep(e) == e.row.date # date_str IN SelectSeq(df, keep)

\* df.loc[label] = new_row: sets the row carrying that label when there is
\* one, and enlarges the frame otherwise.
LocSet(df, label, new_row) ==
    IF \E i \in 1..Len(df) : df[i].idx = label
    THEN [i \in 1..Len(df) |->
            IF df[i].idx = label THEN [idx |-> label, row |-> new_row] ELSE df[i]]
    ELSE Append(df, [idx |-> label, row |-> new_row])

\* df.sort_values("date"): insertion of each row into the sorted prefix.
RECURSIVE InsertSorted(_, _)
InsertSorted(sorted, e) ==
    IF sorted = <<>> THEN <<e>>
    ELSE IF e.row.date < Head(sorted).row.date THEN <<e>> \o sorted
    ELSE <<Head(sorted)>> \o InsertSorted(Tail(sorted), e)

RECURSIVE SortValues(_)
SortValues(df) ==
    IF df = <<>> THEN <<>>
    ELSE InsertSorted(SortValues(SubSeq(df, 1, Len(df) - 1)), df[Len(df)])

\* Mutant: nothing is cut off.
TailRows_KeepAll(df, n) == df

\* df.tail(n)
TailRows(df, n) ==
    IF Len(df) <= n THEN df ELSE SubSeq(df, Len(df) - n + 1, Len(df))

\* df.to_csv(DATA_CSV, index=False): the rows without their labels.
ToCsv(df) == [i \in 1..Len(df) |-> df[i].row]

\* update_history(date_str, mob_vals, pc_vals): the rows written to DATA_CSV.
UpdateHistory(ex, rows, date_str, mob_vals, pc_vals) ==
    LET df0 == ReadFrame(ex, rows)
        df1 == DropDate(df0, date_str)
        df2 == LocSet(df1, Len(df1), NewRow(date_str, mob_vals, pc_vals))
        df3 == TailRows(SortValues(df2), KEEP)
    IN  ToCsv(df3)

InitHistory ==
    IdleHistory /\ IdleBut("history")


\* One call of update_history: the file is rewritten.
CallUpdate(date_str, mob_vals, pc_vals) ==
    /\ history' = UpdateHistory(exists, history, date_str, mob_vals, pc_vals)
    /\ exists' = TRUE
    /\ prev' = history
    /\ arg' = <<NewRow(date_str, mob_vals, pc_vals)>>

\* main() on the next calendar day: update_history(today, mob_vals, pc_vals).
\* The scheduled runs come first; the freely dated calls follow them.
MainDaily ==
    /\ free = 0
    /\ today < MaxDate
    /\ today' = today + 1
    /\ CallUpdate(today + 1, DailyVals, DailyVals)
    /\ UNCHANGED <<free>>
    /\ Frame("history")

\* update_history called with any date, in any order.
UpdateAnyDate ==
    /\ free < MaxFree
    /\ \E d \in Dates : CallUpdate(d, FreeVals(free + 1), FreeVals(free + 1))
    /\ free' = free + 1
    /\ UNCHANGED <<today>>
    /\ Frame("history")

NextHistory == MainDaily \/ UpdateAnyDate

SpecHistory == InitHistory /\ [][NextHistory]_vars

\* The rows of a CSV that carry a given date.
RowsOf(rows, d) == {i \in 1..Len(rows) : rows[i].date = d}

\* C1: when update_history is called for a date the persisted history already
\* holds, the history afterwards has exactly one row for that date and that
\* row holds the newly supplied mobile/desktop values.
C1_ReplacesSameDate ==
    (arg # <<>> /\ RowsOf(prev, arg[1].date) # {}) =>
        /\ Cardinality(RowsOf(history, arg[1].date)) = 1
        /\ \A i \in RowsOf(history, arg[1].date) : history[i] = arg[1]

\* C1 witness: a full history, a call for a stored date that is not the
\* latest one, with values that differ from the stored ones.
C1_Witness ==
    /\ arg # <<>>
    /\ Len(prev) = KEEP
    /\ \E i \in 1..(Len(prev) - 1) :
          /\ prev[i].date = arg[1].date
          /\ prev[i].mobile # arg[1].mobile
    /\ \E i \in 1..Len(history) : history[i] = arg[1]

\* C2: starting from a missing history file, the persisted history never
\* holds more than 28 rows.
C2_AtMost28Rows == Len(history) <= 28

\* C2 witness: a call that adds a new date to a history of 28 rows, after
\* which 28 rows are stored.
C2_Witness ==
    /\ arg # <<>>
    /\ Len(prev) = 28
    /\ RowsOf(prev, arg[1].date) = {}
    /\ Len(history) = 28
    /\ history # prev

\* The dates the history holds once the latest call's date is inserted.
C13_DatesAfter == {prev[i].date : i \in 1..Len(prev)} \cup {arg[1].date}

\* A date that is among the 28 most recent of them.
C13_Recent(d) == Cardinality({x \in C13_DatesAfter : x > d}) < 28

\* C13: update_history changes only the row of the inserted date: every row
\* stored before the call for another date that is among the 28 most recent
\* dates after the insertion is still stored, with unchanged values.
C13_OtherRowsKept ==
    arg # <<>> =>
        \A i \in 1..Len(prev) :
            (prev[i].date # arg[1].date /\ C13_Recent(prev[i].date)) =>
                \E j \in 1..Len(history) : history[j] = prev[i]

(***************************************************************************)
(*            psi_field_status / crux_page_status  (point values)          *)
(***************************************************************************)

\* How far around each boundary the sampled p75 values reach.
Delta == 1

Near(b) == (b - Delta)..(b + Delta)

\* p75 values as the APIs report them: LCP and INP in milliseconds, CLS in
\* hundredths (both functions divide it by 100).
LcpSamples == Near(2500) \cup Near(4000) \cup {None}
InpSamples == Near(200) \cup Near(500) \cup {None}
ClsSamples == Near(10) \cup Near(25) \cup {None}

\* Mutant: the boundaries themselves count as exceeded.
GscStatus_Inclusive(lcp, inp, cls) ==
    IF lcp >= 4 * 1000 \/ inp * 10 >= 5 * 1000 \/ cls * 100 >= 25 * 100 THEN "poor"
    ELSE IF lcp * 10 >= 25 * 1000 \/ inp * 10 >= 2 * 1000 \/ cls * 10 >= 1 * 100
         THEN "ni"
    ELSE "good"

\* status = "good"; if lcp > 4 or inp > 0.5 or cls > 0.25: "poor";
\* elif lcp > 2.5 or inp > 0.2 or cls > 0.1: "ni"
\* where lcp, inp are the p75 / 1000 and cls the p75 / 100.  The quotients
\* are compared exactly: x / 1000 > 2.5 is written 10 * x > 25 * 1000.
GscStatus(lcp, inp, cls) ==
    IF lcp > 4 * 1000 \/ inp * 10 > 5 * 1000 \/ cls * 100 > 25 * 100 THEN "poor"
    ELSE IF lcp * 10 > 25 * 1000 \/ inp * 10 > 2 * 1000 \/ cls * 10 > 1 * 100
         THEN "ni"
    ELSE "good"

\* psi_field_status on a PSI response.  kind "raise": requests.get or .json()
\* raised (timeout, connection error, malformed JSON); "nofield": the JSON
\* has no loadingExperience.metrics; "metrics": the field metrics, None for
\* a metric whose key is absent.
psi_field_status(resp) ==
    IF resp.kind = "raise" THEN "nodata"
    ELSE IF resp.kind = "nofield" THEN "nodata"
    ELSE IF resp.lcp = None \/ resp.cls = None \/ resp.inp = None THEN "nodata"
    ELSE GscStatus(resp.lcp, resp.inp, resp.cls)

\* crux_page_status on a CrUX response.  kind "raise": requests.post,
\* raise_for_status (non-2xx) or .json() raised; "metrics": the p75 values,
\* None where percentiles.p75 is absent.
crux_page_status(resp) ==
    IF resp.kind = "raise" THEN "nodata"
    ELSE IF resp.lcp = None \/ resp.inp = None \/ resp.cls = None THEN "nodata"
    ELSE GscStatus(resp.lcp, resp.inp, resp.cls)

FieldMetrics(m) == [kind |-> "metrics", lcp |-> m.lcp, inp |-> m.inp, cls |-> m.cls]

InitClassify ==
    /\ cIn \in [lcp : LcpSamples, inp : InpSamples, cls : ClsSamples]
    /\ cPsi = "unset" /\ cCrux = "unset"
    /\ IdleBut("classify")


RunPsiStatus ==
    /\ cIn # <<>> /\ cPsi = "unset"
    /\ cPsi' = psi_field_status(FieldMetrics(cIn))
    /\ UNCHANGED <<cIn, cCrux>>
    /\ Frame("classify")

RunCruxStatus ==
    /\ cIn # <<>> /\ cCrux = "unset"
    /\ cCrux' = crux_page_status(FieldMetrics(cIn))
    /\ UNCHANGED <<cIn, cPsi>>
    /\ Frame("classify")

NextClassify == RunPsiStatus \/ RunCruxStatus

SpecClassify == InitClassify /\ [][NextClassify]_vars

\* The category of one p75 value as the claim states it: up to and including
\* the good boundary "good", up to and including the poor boundary "ni".
C3_Category(v, goodMax, poorMin) ==
    IF v <= goodMax THEN "good" ELSE IF v <= poorMin THEN "ni" ELSE "poor"

C3_Rank(c) == IF c = "poor" THEN 2 ELSE IF c = "ni" THEN 1 ELSE 0

C3_Worst(a, b, c) ==
    IF C3_Rank(a) >= C3_Rank(b) /\ C3_Rank(a) >= C3_Rank(c) THEN a
    ELSE IF C3_Rank(b) >= C3_Rank(c) THEN b ELSE c

C3_Expected ==
    C3_Worst(C3_Category(cIn.lcp, 2500, 4000),
             C3_Category(cIn.inp, 200, 500),
             C3_Category(cIn.cls, 10, 25))

\* C3: with all three p75 values present, psi_field_status and
\* crux_page_status return the worst of the three per-metric categories, where
\* a value equal to the good boundary (LCP 2500 ms, INP 200 ms, CLS 0.10) is
\* "good" and a value equal to the poor boundary (LCP 4000 ms, INP 500 ms,
\* CLS 0.25) is "ni".
C3_BoundaryIsBetter ==
    (cIn # <<>> /\ cIn.lcp # None /\ cIn.inp # None /\ cIn.cls # None) =>
        /\ cPsi # "unset" => cPsi = C3_Expected
        /\ cCrux # "unset" => cCrux = C3_Expected

\* C3 witness: LCP on its poor boundary, INP and CLS on their good boundary,
\* classified "ni" by both functions.
C3_Witness ==
    /\ cIn # <<>>
    /\ cIn.lcp = 4000 /\ cIn.inp = 200 /\ cIn.cls = 10
    /\ cPsi = "ni" /\ cCrux = "ni"

(***************************************************************************)
(*                    parse_histogram  (CrUX histograms)                   *)
(***************************************************************************)

MetricKeys ==
    {"largest_contentful_paint", "interaction_to_next_paint",
     "cumulative_layout_shift"}

\* The most bins a sampled histogram has.
MaxBins == 3

\* The lower ends of the good / needs-improvement / poor ranges of a metric
\* (CLS in hundredths), and one start inside each range.
RangeStarts(key) ==
    IF key = "largest_contentful_paint" THEN <<0, 2500, 4000>>
    ELSE IF key = "interaction_to_next_paint" THEN <<0, 200, 500>>
    ELSE <<0, 10, 25>>

\* Densities are held in hundredths: 0.8 is 80.
DensitySamples == {5, 15, 20, 80, 100}

BinsOf(key) ==
    [start : {RangeStarts(key)[i] : i \in 1..3}, density : DensitySamples]

RECURSIVE SumDensity(_)
SumDensity(bins) ==
    IF bins = <<>> THEN 0 ELSE Head(bins).density + SumDensity(Tail(bins))

\* Well-formed histograms: one to MaxBins bins, in any order, whose densities
\* sum to 1.
Histograms(key) ==
    {h \in UNION {[1..n -> BinsOf(key)] : n \in 1..MaxBins} : SumDensity(h) = 100}

\* Mutant: the second and third bin are read the other way round.
parse_histogram_Swapped(bins) ==
    <<IF Len(bins) > 0 THEN bins[1].density * 100 ELSE 0,
      IF Len(bins) > 2 THEN bins[3].density * 100 ELSE 0,
      IF Len(bins) > 1 THEN bins[2].density * 100 ELSE 0>>

\* parse_histogram(metric): bins = metric.get("histogram", []); the first
\* three bins by position are good, ni and poor, each density * 100.  The
\* result is in hundredths of a percent (80 % is 8000; a density of 0.8 is
\* held as 80).
parse_histogram(bins) ==
    <<IF Len(bins) > 0 THEN bins[1].density * 100 ELSE 0,
      IF Len(bins) > 1 THEN bins[2].density * 100 ELSE 0,
      IF Len(bins) > 2 THEN bins[3].density * 100 ELSE 0>>

InitHistogram ==
    /\ hKey \in MetricKeys
    /\ hIn \in Histograms(hKey)
    /\ hOut = <<>>
    /\ IdleBut("histogram")


RunParseHistogram ==
    /\ hIn # <<>> /\ hOut = <<>>
    /\ hOut' = parse_histogram(hIn)
    /\ UNCHANGED <<hKey, hIn>>
    /\ Frame("histogram")

NextHistogram == RunParseHistogram

SpecHistogram == InitHistogram /\ [][NextHistogram]_vars

\* The range of a metric (1 good, 2 needs-improvement, 3 poor) that contains
\* a bucket start.
C6_RangeOf(key, start) ==
    IF start < RangeStarts(key)[2] THEN 1
    ELSE IF start < RangeStarts(key)[3] THEN 2 ELSE 3

RECURSIVE C6_DensityIn(_, _, _)
C6_DensityIn(key, bins, r) ==
    IF bins = <<>> THEN 0
    ELSE (IF C6_RangeOf(key, Head(bins).start) = r THEN Head(bins).density ELSE 0)
         + C6_DensityIn(key, Tail(bins), r)

C6_ByStart ==
    /\ \A r \in 1..3 : hOut[r] = 100 * C6_DensityIn(hKey, hIn, r)
    /\ hOut[1] + hOut[2] + hOut[3] = 100 * 100

\* C6 as claimed: for every well-formed histogram (any number and order of
\* buckets, densities summing to 1) each bucket's density is added to the
\* category whose range contains the bucket's start, and the three outputs
\* sum to 100 %.
C6_AnyHistogramByStart == hOut # <<>> => C6_ByStart

\* C6 amended: for a well-formed histogram of exactly three buckets listed in
\* the order good, needs-improvement, poor (the i-th bucket's start lies in
\* the i-th range), each bucket's density is added to the category whose
\* range contains its start, and the three outputs sum to 100 %.
C6_ThreeOrderedBins ==
    (hOut # <<>> /\ Len(hIn) = 3 /\ \A i \in 1..3 : C6_RangeOf(hKey, hIn[i].start) = i)
        => C6_ByStart

\* C6 witness: the LCP histogram 0 / 2500 / 4000 with densities 0.8, 0.15,
\* 0.05 parsed to 80 %, 15 %, 5 %.
C6_Witness ==
    /\ hKey = "largest_contentful_paint"
    /\ hIn = <<[start |-> 0, density |-> 80], [start |-> 2500, density |-> 15],
               [start |-> 4000, density |-> 5]>>
    /\ hOut = <<8000, 1500, 500>>

(***************************************************************************)
(*                  aggregate / aggregate_probabilistic                    *)
(***************************************************************************)

KeyOrder ==
    <<"largest_contentful_paint", "interaction_to_next_paint",
      "cumulative_layout_shift">>

\* Sampled good and poor densities (hundredths) of a metric that has data.
GoodSamples == {80, 90, 95}
PoorSamples == {1, 2, 5}

\* metrics[key]["histogram"] of a metric with data, and <<>> for a metric
\* the record lacks (metrics.get(key, {}) has no histogram).
MetricSamples(key) ==
    {<<[start |-> RangeStarts(key)[1], density |-> g],
       [start |-> RangeStarts(key)[2], density |-> 100 - g - p],
       [start |-> RangeStarts(key)[3], density |-> p]>> :
        g \in GoodSamples, p \in PoorSamples} \cup {<<>>}

MinOf(S) == CHOOSE x \in S : \A y \in S : x <= y
MaxOf(S) == CHOOSE x \in S : \A y \in S : x >= y

\* aggregate(metrics): good = min(g_list), poor = max(p_list) over all three
\* keys, ni = max(0.0, 100.0 - good - poor); in hundredths of a percent,
\* which round(x, 2) leaves unchanged.
aggregate(metrics) ==
    LET g_list == [i \in 1..3 |-> parse_histogram(metrics[KeyOrder[i]])[1]]
        p_list == [i \in 1..3 |-> parse_histogram(metrics[KeyOrder[i]])[3]]
        good == MinOf({g_list[i] : i \in 1..3})
        poor == MaxOf({p_list[i] : i \in 1..3})
        ni == MaxOf({0, 100 * 100 - good - poor})
    IN  <<good, ni, poor>>

\* round(x, 2) of the exact quotient n / d, in hundredths (ties to even).
RoundDiv(n, d) ==
    LET q == n \div d
        r == n % d
    IN  IF 2 * r < d THEN q
        ELSE IF 2 * r > d THEN q + 1
        ELSE IF q % 2 = 0 THEN q ELSE q + 1

\* aggregate_probabilistic(metrics): good = prod(g / 100),
\* poor = 1 - prod(1 - p / 100), ni = max(0.0, 1.0 - good - poor), each
\* returned as round(x * 100, 2).  The sampled densities are whole hundredths,
\* so g / 100 is kept as the numerator of a fraction over 100 and the
\* products over 100^3.
aggregate_probabilistic(metrics) ==
    LET goods == [i \in 1..3 |-> parse_histogram(metrics[KeyOrder[i]])[1] \div 100]
        poors == [i \in 1..3 |-> parse_histogram(metrics[KeyOrder[i]])[3] \div 100]
        good == goods[1] * goods[2] * goods[3]
        not_poor == (100 - poors[1]) * (100 - poors[2]) * (100 - poors[3])
        poor == 100 * 100 * 100 - not_poor
        ni == MaxOf({0, 100 * 100 * 100 - good - poor})
    IN  <<RoundDiv(good, 100), RoundDiv(ni, 100), RoundDiv(poor, 100)>>

InitAggregate ==
    /\ aIn \in {m \in [MetricKeys -> UNION {MetricSamples(k) : k \in MetricKeys}] :
                  \A k \in MetricKeys : m[k] \in MetricSamples(k)}
    /\ aOut = <<>> /\ aProb = <<>>
    /\ IdleBut("aggregate")


RunAggregate ==
    /\ aIn # <<>> /\ aOut = <<>>
    /\ aOut' = aggregate(aIn)
    /\ UNCHANGED <<aIn, aProb>>
    /\ Frame("aggregate")

RunAggregateProbabilistic ==
    /\ aIn # <<>> /\ aProb = <<>>
    /\ aProb' = aggregate_probabilistic(aIn)
    /\ UNCHANGED <<aIn, aOut>>
    /\ Frame("aggregate")

NextAggregate == RunAggregate \/ RunAggregateProbabilistic

SpecAggregate == InitAggregate /\ [][NextAggregate]_vars

\* The metrics of the input that have data.
Available == {k \in MetricKeys : aIn[k] # <<>>}

\* C4: for one to three metrics with data, aggregate returns good = the
\* minimum of the available metrics' good proportions, poor = the maximum of
\* their poor proportions and ni = 100 % - good - poor, not below 0.
C4_MinMaxOfAvailable ==
    (aOut # <<>> /\ Available # {}) =>
        /\ aOut[1] = MinOf({100 * aIn[k][1].density : k \in Available})
        /\ aOut[3] = MaxOf({100 * aIn[k][3].density : k \in Available})
        /\ aOut[2] = MaxOf({0, 10000 - aOut[1] - aOut[3]})

\* A result that puts no share of the origin into any category.
C5_NoVerdict(out) == \A i \in DOMAIN out : out[i] = 0

\* C5: when none of the three metrics has data, aggregate and
\* aggregate_probabilistic return no verdict: no share of the origin is
\* assigned to good, needs-improvement or poor.
C5_NoDataIsNoVerdict ==
    (aIn # <<>> /\ Available = {}) => (C5_NoVerdict(aOut) /\ C5_NoVerdict(aProb))

(***************************************************************************)
(*                          collect_all_sitemaps                           *)
(***************************************************************************)

\* The sitemap URLs of the site: 1 is urljoin(origin, "/sitemap_index.xml"),
\* 2 is urljoin(origin, "/sitemap.xml"), the others are further sitemaps.
NumSitemaps == 3
SitemapIds == 1..NumSitemaps
IndexUrl == 1
SitemapUrl == 2

\* xml_urls[:4000]
MAX_URLS == 4000

\* What a sitemap URL serves: a <sitemapindex> whose <loc>s name sitemap
\* URLs, a <urlset>, a non-200 answer, a request that raises (timeout), or
\* a 200 answer that is not XML.
Documents ==
    [kind : {"index"}, locs : SUBSET SitemapIds]
    \cup [kind : {"urlset", "non200", "timeout", "malformed"}, locs : {{}}]

\* r.status_code == 200
Status200(doc) == doc.kind \in {"index", "urlset", "malformed"}

\* Mutant: the seen set is never consulted.
AlreadySeen_Never(sitemap_url, seen) == FALSE

\* if sitemap_url in seen: return urls
AlreadySeen(sitemap_url, seen) == sitemap_url \in seen

InitSitemap ==
    /\ sDocs \in [SitemapIds -> Documents]
    /\ sPc = "probe"
    /\ sStack = <<>>
    /\ sSeen = {}
    /\ sProbe = 0
    /\ sFetches = [u \in SitemapIds |-> 0]
    /\ sUrls = <<>>
    /\ IdleBut("sitemap")


\* r = requests.get(index_url, timeout=10): on status 200 the expansion
\* starts at index_url, otherwise (another status, or the request raised) at
\* /sitemap.xml; either way with a fresh seen set.
Probe ==
    /\ sPc = "probe"
    /\ sProbe' = sProbe + 1
    /\ sStack' = <<{IF Status200(sDocs[IndexUrl]) THEN IndexUrl ELSE SitemapUrl}>>
    /\ sSeen' = {}
    /\ sPc' = "walk"
    /\ UNCHANGED <<sDocs, sFetches, sUrls>>
    /\ Frame("sitemap")

\* get_urls_from_sitemap(child_url, seen) for the next <loc> of the
\* innermost frame (the documents list their <loc>s in any order).
Visit ==
    /\ sPc = "walk" /\ sStack # <<>>
    /\ \E c \in sStack[Len(sStack)] :
         LET rest == [sStack EXCEPT ![Len(sStack)] = @ \ {c}]
             doc == sDocs[c]
         IN  IF AlreadySeen(c, sSeen)
             THEN /\ sStack' = rest
                  /\ UNCHANGED <<sSeen, sFetches, sUrls>>
             ELSE /\ sSeen' = sSeen \cup {c}
                  /\ sFetches' = [sFetches EXCEPT ![c] = @ + 1]
                  /\ sStack' = IF doc.kind = "index" THEN Append(rest, doc.locs)
                               ELSE rest
                  /\ sUrls' = IF doc.kind = "urlset" THEN Append(sUrls, c)
                              ELSE sUrls
    /\ UNCHANGED <<sDocs, sPc, sProbe>>
    /\ Frame("sitemap")

\* return urls: the innermost frame has no <loc> left.
Return ==
    /\ sPc = "walk" /\ sStack # <<>>
    /\ sStack[Len(sStack)] = {}
    /\ sStack' = SubSeq(sStack, 1, Len(sStack) - 1)
    /\ UNCHANGED <<sDocs, sPc, sSeen, sProbe, sFetches, sUrls>>
    /\ Frame("sitemap")

\* return xml_urls[:4000]
Collected ==
    /\ sPc = "walk" /\ sStack = <<>>
    /\ sPc' = "done"
    /\ sUrls' = SubSeq(sUrls, 1, IF Len(sUrls) < MAX_URLS THEN Len(sUrls) ELSE MAX_URLS)
    /\ UNCHANGED <<sDocs, sStack, sSeen, sProbe, sFetches>>
    /\ Frame("sitemap")

NextSitemap == Probe \/ Visit \/ Return \/ Collected

SpecSitemap == InitSitemap /\ [][NextSitemap]_vars

\* All requests.get calls of the run for one sitemap URL.
TotalFetches(u) == sFetches[u] + (IF u = 1 THEN sProbe ELSE 0)

\* C8 as claimed: during one run no sitemap URL is fetched more than once.
C8_NoUrlFetchedTwice ==
    sPc # "idle" => \A u \in SitemapIds : TotalFetches(u) <= 1

\* C8 amended: during one run the recursive expansion fetches no sitemap URL
\* more than once, whatever the documents reference; over the whole run only
\* /sitemap_index.xml can be fetched twice (once by the probe of its status,
\* once by the expansion) and every other sitemap URL at most once.
C8_ExpansionFetchesOnce ==
    sPc # "idle" =>
        /\ \A u \in SitemapIds : sFetches[u] <= 1
        /\ \A u \in SitemapIds : u # 1 => TotalFetches(u) <= 1
        /\ TotalFetches(1) <= 2

\* C8 witness: a finished run over indexes that reference themselves and each
\* other, every one of them expanded.
C8_Witness ==
    /\ sPc = "done"
    /\ sDocs[1].kind = "index" /\ {1, 2} \subseteq sDocs[1].locs
    /\ sDocs[2].kind = "index" /\ {1, 2} \subseteq sDocs[2].locs
    /\ sFetches[1] = 1 /\ sFetches[2] = 1

(***************************************************************************)
(*            monitor.py: check_url pool, message, Slack webhook           *)
(***************************************************************************)

\* Number of URLs gather_all_urls found (all_urls, in iteration order).
NumPages == 2
Pages == 1..NumPages

\* ThreadPoolExecutor(max_workers=5)
MAX_WORKERS == 5

\* What one PSI request of check_url gets: the request raises (timeout,
\* connection error), a non-200 status, a 200 answer whose body is not JSON,
\* or a 200 JSON answer whose loadingExperience.metrics are absent
\* ("nofield") or give LCP the category FAST or SLOW.  "notcalled" marks a
\* request check_url never made.
MonitorResponses == {"exception", "non200", "badjson", "nofield", "fast", "slow"}

\* slow_metrics for one 200 JSON response.
SlowMetrics(resp) == IF resp = "slow" THEN {"LCP"} ELSE {}

\* One pass of "for strategy in [mobile, desktop]" of check_url: what it
\* adds to result, and whether res.json() raises (it is not inside the try).
StrategyRaises(resp) == resp = "badjson"

StrategyResult(resp) ==
    IF resp \in {"exception", "non200"} THEN {}      \* continue
    ELSE IF resp = "nofield" THEN {}                 \* if not metrics: continue
    ELSE SlowMetrics(resp)                           \* if slow_metrics: result[...]

\* check_url(url) raises when a reached strategy's body is not JSON.
check_url_raises(resps) ==
    \/ StrategyRaises(resps[1])
    \/ (~StrategyRaises(resps[1]) /\ StrategyRaises(resps[2]))

\* check_url(url): the result dict, an empty set standing for an absent key.
check_url(resps) ==
    [mobile |-> StrategyResult(resps[1]), desktop |-> StrategyResult(resps[2])]

\* if result: (the dict has a key)
NonEmpty(result) == result.mobile # {} \/ result.desktop # {}

\* One line of the message for an issue: "モバイル – 良好" ("good") unless
\* result has slow metrics for the strategy.
IssueLine(url, result) ==
    [url |-> url,
     mobile |-> IF result.mobile # {} THEN "slow" ELSE "good",
     desktop |-> IF result.desktop # {} THEN "slow" ELSE "good"]

\* message_lines: the all-pages-good line when issues is empty, one line per
\* issue otherwise.
BuildMessage(issues) ==
    [allGood |-> issues = <<>>,
     lines |-> [i \in 1..Len(issues) |-> IssueLine(issues[i][1], issues[i][2])]]

InitMonitor ==
    /\ mPc = "pool"
    /\ mResp = [u \in Pages |-> <<"notcalled", "notcalled">>]
    /\ mFuture = [u \in Pages |-> "queued"]
    /\ mResult = [u \in Pages |-> [mobile |-> {}, desktop |-> {}]]
    /\ mNext = 1
    /\ mIssues = <<>>
    /\ mMessage = <<>>
    /\ mWebhook \in BOOLEAN
    /\ mSlack = "none"
    /\ mExit = -1
    /\ IdleBut("monitor")

\* A worker takes the oldest queued check_url call.
StartCheck(u) ==
    /\ mPc \in {"pool", "unwinding"}
    /\ mFuture[u] = "queued"
    /\ \A v \in Pages : v < u => mFuture[v] # "queued"
    /\ Cardinality({v \in Pages : mFuture[v] = "running"}) < MAX_WORKERS
    /\ mFuture' = [mFuture EXCEPT ![u] = "running"]
    /\ UNCHANGED <<mPc, mResp, mResult, mNext, mIssues, mMessage, mWebhook, mSlack, mExit>>
    /\ Frame("monitor")

\* check_url(u) runs to its end: the desktop request is made only if the
\* mobile pass did not raise.
FinishCheck(u) ==
    /\ mPc \in {"pool", "unwinding"}
    /\ mFuture[u] = "running"
    /\ \E m \in MonitorResponses, d \in MonitorResponses \cup {"notcalled"} :
         /\ (d = "notcalled") <=> StrategyRaises(m)
         /\ mResp' = [mResp EXCEPT ![u] = <<m, d>>]
         /\ IF check_url_raises(<<m, d>>)
            THEN /\ mFuture' = [mFuture EXCEPT ![u] = "raised"]
                 /\ UNCHANGED mResult
            ELSE /\ mFuture' = [mFuture EXCEPT ![u] = "done"]
                 /\ mResult' = [mResult EXCEPT ![u] = check_url(<<m, d>>)]
    /\ UNCHANGED <<mPc, mNext, mIssues, mMessage, mWebhook, mSlack, mExit>>
    /\ Frame("monitor")

\* for future in futures: url, result = future.result(); an exception of
\* check_url is raised again here and leaves the with block.
CollectResult ==
    /\ mPc = "pool" /\ mNext <= NumPages
    /\ mFuture[mNext] \in {"done", "raised"}
    /\ IF mFuture[mNext] = "raised"
       THEN /\ mPc' = "unwinding"
            /\ UNCHANGED <<mNext, mIssues>>
       ELSE /\ mNext' = mNext + 1
            /\ mIssues' = IF NonEmpty(mResult[mNext])
                          THEN Append(mIssues, <<mNext, mResult[mNext]>>)
                          ELSE mIssues
            /\ UNCHANGED mPc
    /\ UNCHANGED <<mResp, mFuture, mResult, mMessage, mWebhook, mSlack, mExit>>
    /\ Frame("monitor")

\* The with block is left by the exception: shutdown(wait=True) lets the
\* other calls finish, then the script ends with a traceback.
Abort ==
    /\ mPc = "unwinding"
    /\ \A u \in Pages : mFuture[u] \in {"done", "raised"}
    /\ mPc' = "crashed"
    /\ mExit' = 1
    /\ UNCHANGED <<mResp, mFuture, mResult, mNext, mIssues, mMessage, mWebhook, mSlack>>
    /\ Frame("monitor")

\* Message assembly after the loop over the futures.
AssembleMessage ==
    /\ mPc = "pool" /\ mNext = NumPages + 1
    /\ mMessage' = BuildMessage(mIssues)
    /\ mPc' = "send"
    /\ UNCHANGED <<mResp, mFuture, mResult, mNext, mIssues, mWebhook, mSlack, mExit>>
    /\ Frame("monitor")

\* The exit status after the Slack dispatch: a non-200 answer and a request
\* exception are printed, and the script runs off its end.
SendExit(outcome) == 0

\* requests.post(SLACK_WEBHOOK_URL, ...) when the webhook is set, print
\* otherwise.
Dispatch ==
    /\ mPc = "send"
    /\ IF mWebhook
       THEN \E outcome \in {"ok", "non200", "exception"} :
              /\ mSlack' = outcome
              /\ mExit' = SendExit(outcome)
       ELSE /\ mSlack' = "printed"
            /\ mExit' = SendExit("printed")
    /\ mPc' = "done"
    /\ UNCHANGED <<mResp, mFuture, mResult, mNext, mIssues, mMessage, mWebhook>>
    /\ Frame("monitor")

NextMonitor ==
    \/ \E u \in Pages : StartCheck(u)
    \/ \E u \in Pages : FinishCheck(u)
    \/ CollectResult
    \/ Abort
    \/ AssembleMessage
    \/ Dispatch

SpecMonitor == InitMonitor /\ [][NextMonitor]_vars

\* The (URL, strategy) pairs whose field data could not be had: the request
\* failed or the answer carries no field metrics.
C7_NoData(u, i) == mResp[u][i] \in {"exception", "non200", "nofield"}

\* The message presents a (URL, strategy) pair as good.
C7_ReportedGood(u, i) ==
    \/ mMessage.allGood
    \/ \E k \in 1..Len(mMessage.lines) :
         /\ mMessage.lines[k].url = u
         /\ (IF i = 1 THEN mMessage.lines[k].mobile ELSE mMessage.lines[k].desktop) = "good"

\* C7: a (URL, device) whose field-data fetch failed or whose metrics are
\* absent is never reported as good, neither in its page line nor by the
\* all-pages-good summary.
C7_NoDataNeverGood ==
    mPc \in {"send", "done"} =>
        \A u \in Pages : \A i \in 1..2 : C7_NoData(u, i) => ~C7_ReportedGood(u, i)

\* C9: a run whose Slack delivery failed (request exception or non-2xx
\* answer) never ends with a success status.
C9_DeliveryFailureSurfaced ==
    (mPc = "done" /\ mSlack \in {"non200", "exception"}) => mExit # 0

\* C10: whatever a PSI call returns (timeout, non-2xx, 2xx with a malformed
\* body) the run is not aborted: it goes on to the reporting step.
C10_RunReachesReport ==
    mPc # "idle" => mPc \notin {"unwinding", "crashed"}

(***************************************************************************)
(*        cwv_report.main: status loop, counts, post_slack                 *)
(***************************************************************************)

\* Number of URLs collect_all_sitemaps returned.
NumUrls == 2

\* Sampled PSI answers: the call raises (timeout, connection error, body
\* that is not JSON), JSON without field data (as the error body of a
\* non-2xx answer is), field data lacking INP, and complete field data
\* on and just beyond the boundaries.
PsiResponses ==
    {[kind |-> "raise", lcp |-> None, inp |-> None, cls |-> None],
     [kind |-> "nofield", lcp |-> None, inp |-> None, cls |-> None],
     [kind |-> "metrics", lcp |-> 2500, inp |-> None, cls |-> 10],
     [kind |-> "metrics", lcp |-> 2500, inp |-> 200, cls |-> 10],
     [kind |-> "metrics", lcp |-> 4000, inp |-> 200, cls |-> 10],
     [kind |-> "metrics", lcp |-> 2500, inp |-> 200, cls |-> 26]}

\* Sampled CrUX answers: the call raises (timeout, non-2xx, body that is
\* not JSON), a record lacking the CLS p75, and complete records.
CruxResponses ==
    {[kind |-> "raise", lcp |-> None, inp |-> None, cls |-> None],
     [kind |-> "metrics", lcp |-> 2500, inp |-> 200, cls |-> None],
     [kind |-> "metrics", lcp |-> 2500, inp |-> 200, cls |-> 10],
     [kind |-> "metrics", lcp |-> 2500, inp |-> 501, cls |-> 10]}

\* mob_stat = psi_field_status(...); if mob_stat == "nodata":
\*     mob_stat = crux_page_status(...)
StatusWithFallback(psi, crux) ==
    IF psi_field_status(psi) = "nodata" THEN crux_page_status(crux)
    ELSE psi_field_status(psi)

\* An answer that carries all three metrics.
Complete(resp) ==
    resp.kind = "metrics" /\ resp.lcp # None /\ resp.inp # None /\ resp.cls # None

\* [s for s in statuses if s != "nodata"].count(c)
CountOf(statuses, c) ==
    Cardinality({i \in 1..Len(statuses) : statuses[i] # "nodata" /\ statuses[i] = c})

\* mob_vals / pc_vals
CountsOf(statuses) ==
    <<CountOf(statuses, "good"), CountOf(statuses, "ni"), CountOf(statuses, "poor")>>

\* post_slack: "raised" when the call raises, "returned" otherwise.  With a
\* bot token a SlackApiError is printed and raised again; with only the
\* webhook the answer of requests.post is not looked at, a request exception
\* is not caught; without credentials a line is printed.
post_slack(cred, outcome) ==
    IF cred = "token" THEN (IF outcome = "api_error" THEN "raised" ELSE "returned")
    ELSE IF cred = "webhook" THEN (IF outcome = "exception" THEN "raised" ELSE "returned")
    ELSE "returned"

SlackOutcomes(cred) ==
    IF cred = "token" THEN {"ok", "api_error"}
    ELSE IF cred = "webhook" THEN {"ok", "non200", "exception"}
    ELSE {"skipped"}

InitReport ==
    /\ rPc = "loop"
    /\ rMob = <<>> /\ rDesk = <<>> /\ rData = <<>>
    /\ rVals = <<>>
    /\ rCred \in {"token", "webhook", "none"}
    /\ rSlack = "none"
    /\ rExit = -1
    /\ IdleBut("report")

\* One pass of "for i, u in enumerate(urls)".
CheckPage ==
    /\ rPc = "loop" /\ Len(rMob) < NumUrls
    /\ \E pm \in PsiResponses, cm \in CruxResponses,
          pd \in PsiResponses, cd \in CruxResponses :
         /\ rMob' = Append(rMob, StatusWithFallback(pm, cm))
         /\ rDesk' = Append(rDesk, StatusWithFallback(pd, cd))
         /\ rData' = Append(rData, <<Complete(pm) \/ Complete(cm),
                                     Complete(pd) \/ Complete(cd)>>)
    /\ UNCHANGED <<rPc, rVals, rCred, rSlack, rExit>>
    /\ Frame("report")

\* The counts without the "nodata" entries.
CountStatuses ==
    /\ rPc = "loop" /\ Len(rMob) = NumUrls
    /\ rVals' = <<CountsOf(rMob), CountsOf(rDesk)>>
    /\ rPc' = "post"
    /\ UNCHANGED <<rMob, rDesk, rData, rCred, rSlack, rExit>>
    /\ Frame("report")

\* post_slack(msg, CHART_FILE); an exception ends main() with status 1.
PostSlack ==
    /\ rPc = "post"
    /\ \E outcome \in SlackOutcomes(rCred) :
         /\ rSlack' = outcome
         /\ IF post_slack(rCred, outcome) = "raised"
            THEN rPc' = "raised" /\ rExit' = 1
            ELSE rPc' = "done" /\ rExit' = 0
    /\ UNCHANGED <<rMob, rDesk, rData, rVals, rCred>>
    /\ Frame("report")

NextReport == CheckPage \/ CountStatuses \/ PostSlack

SpecReport == InitReport /\ [][NextReport]_vars

\* cwv_report.main keeps a (URL, device) without a complete field record out
\* of the counts: the counts add up to the number of pairs with data.
ReportCountsOnlyData ==
    rVals # <<>> =>
        /\ rVals[1][1] + rVals[1][2] + rVals[1][3]
             = Cardinality({i \in 1..Len(rData) : rData[i][1]})
        /\ rVals[2][1] + rVals[2][2] + rVals[2][3]
             = Cardinality({i \in 1..Len(rData) : rData[i][2]})
        /\ \A i \in 1..Len(rData) : ~rData[i][1] <=> rMob[i] = "nodata"

(***************************************************************************)
(*            cwv_report.main: the poor URL list of the message            *)
(***************************************************************************)

\* The most URLs a sampled run has.
MaxUrlCount == 22

\* [...][:20]
POOR_LIMIT == 20

\* Sampled mob_statuses: up to MaxUrlCount URLs, all "poor" but for at most
\* two of them (positions a and b, 0 for none).
StatusLists ==
    {[i \in 1..n |-> IF i = a THEN sa ELSE IF i = b THEN sb ELSE "poor"] :
        n \in 0..MaxUrlCount, a \in 0..MaxUrlCount, b \in 0..MaxUrlCount,
        sa \in {"good", "ni", "nodata"}, sb \in {"good", "nodata"}}

\* [u for u, s in zip(urls, mob_statuses) if s == "poor"]: the URLs are
\* named by their position in urls.
PoorOf(statuses) ==
    LET isPoor(i) == statuses[i] = "poor"
    IN  SelectSeq([i \in 1..Len(statuses) |-> i], isPoor)

\* xs[:n]
Take(xs, n) == IF Len(xs) <= n THEN xs ELSE SubSeq(xs, 1, n)

\* The poor URL part of msg: nothing when poor_urls is empty; otherwise the
\* listed URLs and, if len(poor_urls) == 20, the line "…他 N 件" with
\* N = mob_valid.count('poor') - 20 (more = None: no such line).
PoorSection(statuses) ==
    LET poor_urls == Take(PoorOf(statuses), POOR_LIMIT)
    IN  IF poor_urls = <<>> THEN [listed |-> <<>>, more |-> None]
        ELSE [listed |-> poor_urls,
              more |-> IF Len(poor_urls) = 20
                       THEN Len(PoorOf(statuses)) - 20 ELSE None]

InitPoorList ==
    /\ pStatuses \in StatusLists
    /\ pSection = <<>>
    /\ IdleBut("poorlist")

\* Steps 3 and 5 of main(): poor_urls and the message.
BuildPoorSection ==
    /\ pSection = <<>>
    /\ pSection' = PoorSection(pStatuses)
    /\ UNCHANGED pStatuses
    /\ Frame("poorlist")

NextPoorList == BuildPoorSection

SpecPoorList == InitPoorList /\ [][NextPoorList]_vars

\* The number of mobile-poor URLs of the run.
C12_PoorCount == Cardinality({i \in 1..Len(pStatuses) : pStatuses[i] = "poor"})

\* C12: the message lists at most 20 poor URLs; the "+N more" line appears
\* only when some poor URL is left out of the list, and its N is the number
\* of poor URLs not listed.
C12_MoreOnlyWhenOmitted ==
    pSection # <<>> =>
        /\ Len(pSection.listed) <= 20
        /\ pSection.more # None =>
              /\ C12_PoorCount > Len(pSection.listed)
              /\ pSection.more = C12_PoorCount - Len(pSection.listed)

(***************************************************************************)
(*                        monitor.py: normalize_url                        *)
(***************************************************************************)

\* The longest sampled path, in characters.
MaxPathLen == 3

\* Paths as urlparse gives them after a netloc: empty, or a string of
\* characters that starts with "/".
PathChars == {"/", "a"}
Paths ==
    {p \in UNION {[1..n -> PathChars] : n \in 0..MaxPathLen} :
        p = <<>> \/ p[1] = "/"}

\* urlparse(url): scheme ("" when the URL has none), netloc ("" for a
\* relative URL), path, query and fragment.
Urls ==
    [scheme : {"", "http", "https"},
     netloc : {"", "good-apps.jp", "www.good-apps.jp", "evil.example"},
     path : Paths,
     query : {"", "x=1"},
     fragment : {"", "top"}]

\* allowed_domains
AllowedDomains == {"good-apps.jp", "www.good-apps.jp"}

\* parsed.geturl() once query, fragment and params are emptied: the string
\* scheme "://" netloc path, held as a sequence whose first three entries are
\* the scheme, "://" and the netloc and whose other entries are the
\* characters of the path.
GetUrl(scheme, netloc, path) == <<scheme, "://", netloc>> \o path

\* urlparse(url_clean).path
PathOfUrl(url_clean) == SubSeq(url_clean, 4, Len(url_clean))

\* url_clean.endswith("/"): the netlocs that get here do not end in "/".
EndsWithSlash(url_clean) == Len(url_clean) > 3 /\ url_clean[Len(url_clean)] = "/"

\* if url_clean.endswith("/") and parsed.path not in ["", "/"]:
\*     url_clean = url_clean[:-1]
StripTrailingSlash(url_clean, path) ==
    IF EndsWithSlash(url_clean) /\ path \notin {<<>>, <<"/">>}
    THEN SubSeq(url_clean, 1, Len(url_clean) - 1)
    ELSE url_clean

\* normalize_url(url); <<>> stands for None.
normalize_url(u) ==
    LET scheme == IF u.scheme = "" THEN "https"
                  ELSE IF u.scheme = "http" THEN "https" ELSE u.scheme
    IN  IF u.netloc = "" THEN <<>>
        ELSE IF u.netloc \notin AllowedDomains THEN <<>>
        ELSE LET url_clean ==
                    StripTrailingSlash(GetUrl(scheme, u.netloc, u.path), u.path)
             IN  IF PathOfUrl(url_clean) = <<>> THEN Append(url_clean, "/")
                 ELSE url_clean

InitNormalize ==
    /\ nA \in Urls
    /\ nB \in {u \in Urls : u.netloc = nA.netloc}
    /\ nDone = FALSE
    /\ nOutA = <<>> /\ nOutB = <<>>
    /\ IdleBut("normalize")

\* normalize_url applied to both URLs.
NormalizeBoth ==
    /\ nA # <<>> /\ ~nDone
    /\ nOutA' = normalize_url(nA)
    /\ nOutB' = normalize_url(nB)
    /\ nDone' = TRUE
    /\ UNCHANGED <<nA, nB>>
    /\ Frame("normalize")

NextNormalize == NormalizeBoth

SpecNormalize == InitNormalize /\ [][NextNormalize]_vars

\* Two paths that are equal, or of which one is the other, a non-root path,
\* with a trailing slash added.
C11_PathsAgree(p, q) ==
    \/ p = q
    \/ (p \notin {<<>>, <<"/">>} /\ q = Append(p, "/"))
    \/ (q \notin {<<>>, <<"/">>} /\ p = Append(q, "/"))

\* Two URLs that differ at most in http vs https, query string, fragment,
\* or a trailing slash on a non-root path.
C11_Variants(a, b) ==
    /\ a.netloc = b.netloc
    /\ a.scheme \in {"http", "https"} /\ b.scheme \in {"http", "https"}
    /\ C11_PathsAgree(a.path, b.path)

\* C11: normalize_url gives two URLs on an allow-listed host that differ only
\* in http vs https, query string, fragment or a trailing slash on a non-root
\* path the same result, and gives None for a URL whose host is not
\* allow-listed.
C11_VariantsNormalizeAlike ==
    nDone =>
        /\ (nA.netloc \in {"good-apps.jp", "www.good-apps.jp"} /\ C11_Variants(nA, nB))
              => (nOutA = nOutB /\ nOutA # <<>>)
        /\ nA.netloc \notin {"good-apps.jp", "www.good-apps.jp"} => nOutA = <<>>

====
